---- MODULE Spec2Model ----
(***************************************************************************)
(* A model of the CHIP-8 interpreter of src/src/lib.rs: the machine state  *)
(* of struct Chip8, its construction by Chip8::new and one action per      *)
(* dispatch branch of Chip8::cycle.  A Rust panic (todo!(), panic!(),      *)
(* unwrap() on None, an index out of bounds) stops the machine and leaves  *)
(* the state as it was mutated up to the panic.                            *)
(***************************************************************************)
EXTENDS Integers, Sequences, FiniteSets

\* ------------------------------------------------------------ constants

DISPLAY_WIDTH == 64
DISPLAY_HEIGHT == 32
DISPLAY_SIZE == (DISPLAY_WIDTH * DISPLAY_HEIGHT) \div 8
MEMORY_SIZE == 4096
FONT_START == 80
PROGRAM_START == 512

FONT_BYTES ==
  << 240, 144, 144, 144, 240,   32,  96,  32,  32, 112,
     240,  16, 240, 128, 240,  240,  16, 240,  16, 240,
     144, 144, 240,  16,  16,  240, 128, 240,  16, 240,
     240, 128, 240, 144, 240,  240,  16,  32,  64,  64,
     240, 144, 240, 144, 240,  240, 144, 240,  16, 240,
     240, 144, 240, 144, 144,  224, 144, 224, 144, 224,
     240, 128, 128, 128, 240,  224, 144, 144, 144, 224,
     240, 128, 240, 128, 240,  240, 128, 240, 128, 128 >>

\* ------------------------------------------------------------ bounds

\* register values tried: 0..MaxVal, 127, 128 and 255-MaxVal..255
MaxVal == 1
\* register indices tried: 0..MaxReg and 0xF
MaxReg == 1
\* sprite heights tried: 0..MaxN
MaxN == 3
\* start columns tried: 0, 9 and the EdgeCols+1 columns ending at column 63
EdgeCols == 7
\* start rows tried: 0 and the EdgeRows+1 rows ending at row 31
EdgeRows == 2
\* the call stack (a Vec, unbounded in the code) is explored up to this depth
MaxStack == 3

\* ------------------------------------------------------------ state

VARIABLES
  program,      \* the bytes Chip8::new copied to memory[0x200..]
  custom_font,  \* the custom_font argument of Chip8::new: << >> for None
  display,      \* [u8; DISPLAY_SIZE]
  pc,           \* usize
  i,            \* u16
  stack,        \* Vec<u16>
  delay_timer,  \* u8
  sound_timer,  \* u8
  registers,    \* [u8; 16]
  panic,        \* "" while running, else the kind of panic that stopped the machine
  entry,        \* history: the machine state at entry to the latest two cycles,
                \* the latest first
  pending,      \* history: for every address now on the stack, the pc of the
                \* instruction that pushed it and the stack it was pushed on
  last_cycle,   \* self.last_cycle.elapsed(), in time units, up to ElapsedCap
  last_timer,   \* self.last_timer.elapsed(), in time units, up to ElapsedCap
  draws,        \* the draw callback: how often it was invoked, and its latest argument
  beeps,        \* the beep callback: the sound timer as it was at each invocation
  built,        \* whether Chip8::new has returned the machine
  since_call,   \* history: the time since the latest call of cycle, timers or update
  calls,        \* history: the latest two calls of cycle, timers or update, the
                \* latest first, each with the state it started from
  run           \* history: the timers before a run of timers calls, and its length

vars == << program, display, pc, i, stack, delay_timer, sound_timer,
           registers, panic, entry, pending, last_cycle, last_timer,
           draws, beeps, built, since_call, calls, run, custom_font >>

\* ------------------------------------------------------------ bytes

Bit(v, k) == (v \div (2 ^ k)) % 2

\* u8 | u8 written where u8 ^ u8 is meant
MutXor8(a, b) ==
    (IF Bit(a, 0) + Bit(b, 0) > 0 THEN 1 ELSE 0)
  + (IF Bit(a, 1) + Bit(b, 1) > 0 THEN 2 ELSE 0)
  + (IF Bit(a, 2) + Bit(b, 2) > 0 THEN 4 ELSE 0)
  + (IF Bit(a, 3) + Bit(b, 3) > 0 THEN 8 ELSE 0)
  + (IF Bit(a, 4) + Bit(b, 4) > 0 THEN 16 ELSE 0)
  + (IF Bit(a, 5) + Bit(b, 5) > 0 THEN 32 ELSE 0)
  + (IF Bit(a, 6) + Bit(b, 6) > 0 THEN 64 ELSE 0)
  + (IF Bit(a, 7) + Bit(b, 7) > 0 THEN 128 ELSE 0)

\* u8 ^ u8
Xor8(a, b) ==
    ((Bit(a, 0) + Bit(b, 0)) % 2)
  + ((Bit(a, 1) + Bit(b, 1)) % 2) * 2
  + ((Bit(a, 2) + Bit(b, 2)) % 2) * 4
  + ((Bit(a, 3) + Bit(b, 3)) % 2) * 8
  + ((Bit(a, 4) + Bit(b, 4)) % 2) * 16
  + ((Bit(a, 5) + Bit(b, 5)) % 2) * 32
  + ((Bit(a, 6) + Bit(b, 6)) % 2) * 64
  + ((Bit(a, 7) + Bit(b, 7)) % 2) * 128

\* u8 | u8 and u8 & u8
Or8(a, b) ==
    (IF Bit(a, 0) + Bit(b, 0) > 0 THEN 1 ELSE 0)
  + (IF Bit(a, 1) + Bit(b, 1) > 0 THEN 2 ELSE 0)
  + (IF Bit(a, 2) + Bit(b, 2) > 0 THEN 4 ELSE 0)
  + (IF Bit(a, 3) + Bit(b, 3) > 0 THEN 8 ELSE 0)
  + (IF Bit(a, 4) + Bit(b, 4) > 0 THEN 16 ELSE 0)
  + (IF Bit(a, 5) + Bit(b, 5) > 0 THEN 32 ELSE 0)
  + (IF Bit(a, 6) + Bit(b, 6) > 0 THEN 64 ELSE 0)
  + (IF Bit(a, 7) + Bit(b, 7) > 0 THEN 128 ELSE 0)

And8(a, b) ==
    (Bit(a, 0) * Bit(b, 0))
  + (Bit(a, 1) * Bit(b, 1)) * 2
  + (Bit(a, 2) * Bit(b, 2)) * 4
  + (Bit(a, 3) * Bit(b, 3)) * 8
  + (Bit(a, 4) * Bit(b, 4)) * 16
  + (Bit(a, 5) * Bit(b, 5)) * 32
  + (Bit(a, 6) * Bit(b, 6)) * 64
  + (Bit(a, 7) * Bit(b, 7)) * 128

\* u8 >> k and u8 << k (the bits shifted out of the byte are lost)
Shr8(v, k) == v \div (2 ^ k)
Shl8(v, k) == (v * (2 ^ k)) % 256

\* ------------------------------------------------------------ memory

\* memory[a] as Chip8::new built it; no instruction of cycle writes memory
memory(a) ==
  IF a >= FONT_START /\ a < FONT_START + Len(FONT_BYTES)
    THEN (IF custom_font = << >> THEN FONT_BYTES ELSE custom_font)[a - FONT_START + 1]
  ELSE IF a >= PROGRAM_START /\ a < PROGRAM_START + Len(program)
    THEN program[a - PROGRAM_START + 1]
  ELSE 0

\* ------------------------------------------------------------ decode

\* the two bytes cycle fetches and the four nibbles it decodes them into
current == memory(pc)
current2 == memory(pc + 1)
o == current \div 16
x == current % 16
y == current2 \div 16
n == current2 % 16

\* (x as u16) << 8 | (y as u16) << 4 | n as u16
Addr(hi, mid, lo) == hi * 256 + mid * 16 + lo
\* y << 4 | n
Imm(mid, lo) == mid * 16 + lo

\* the guarded arms of `match o`, and the arms that take every sub-opcode
Arm0 == o = 0 /\ x = 0 /\ y = 14
\* the arm `0x5 if n == 0` without its guard
MutArm5 == o = 5
Arm5 == o = 5 /\ n = 0
Arm9 == o = 9 /\ n = 0
ArmPlain == o \in {1, 2, 3, 4, 6, 7, 8, 10, 13}
\* the `_ => panic!` arm: every word no other arm takes
ArmDefault == ~(Arm0 \/ Arm5 \/ Arm9 \/ ArmPlain)

\* ------------------------------------------------------------ arithmetic

\* the carry tested as out > 0x100
MutAddCarry(vx, vy) ==
  LET out == vx + vy
  IN  [value |-> out % 256, flag |-> IF out > 256 THEN 1 ELSE 0]

\* 8xy4: the u16 sum, its low byte and the test of its high byte
AddCarry(vx, vy) ==
  LET out == vx + vy
  IN  [value |-> out % 256, flag |-> IF out \div 256 # 0 THEN 1 ELSE 0]

\* the comparison written vx >= vy
MutSubBorrow(vx, vy) ==
  IF vx >= vy
    THEN [value |-> vx - vy, flag |-> 1]
    ELSE [value |-> (256 - (vy - vx)) % 256, flag |-> 0]

\* 8xy5 (and 8xy7 with the operands swapped)
SubBorrow(vx, vy) ==
  IF vx > vy
    THEN [value |-> vx - vy, flag |-> 1]
    ELSE [value |-> (256 - (vy - vx)) % 256, flag |-> 0]

\* registers[x] = value, then registers[0xF] = flag
WriteResult(regs, rx, res) ==
  [[regs EXCEPT ![rx] = res.value] EXCEPT ![15] = res.flag]

\* ------------------------------------------------------------ sprite draw

\* the break taken one row early
MutRowClipped(row0, k) == row0 + k >= DISPLAY_HEIGHT - 1

\* if y + i >= DISPLAY_HEIGHT { break; }
RowClipped(row0, k) == row0 + k >= DISPLAY_HEIGHT

\* if x_byte < DISPLAY_WIDTH / 8 && x_offset != 0
SpansNextByte(x_byte, x_offset) ==
  x_byte < DISPLAY_WIDTH \div 8 /\ x_offset # 0

\* di = (y + i) * (DISPLAY_WIDTH / 8) + x_byte
DisplayIndex(row0, k, x_byte) == (row0 + k) * (DISPLAY_WIDTH \div 8) + x_byte

\* the loop `for i in 0..n` from iteration k on: the display it leaves and the
\* panic (if any) that ended it
RECURSIVE DrawRows(_, _, _, _, _, _, _)
DrawRows(disp, k, cnt, x_byte, x_offset, row0, idx) ==
  IF k >= cnt \/ RowClipped(row0, k)
    THEN [display |-> disp, panic |-> ""]
  ELSE IF idx + k >= MEMORY_SIZE
    THEN [display |-> disp, panic |-> "memory index out of bounds"]
  ELSE
    LET di == DisplayIndex(row0, k, x_byte)
        row == memory(idx + k)
        d1 == [disp EXCEPT ![di] = Xor8(@, Shr8(row, x_offset))]
    IN  IF SpansNextByte(x_byte, x_offset)
          THEN IF di + 1 >= DISPLAY_SIZE
                 THEN [display |-> d1, panic |-> "display index out of bounds"]
                 ELSE DrawRows([d1 EXCEPT ![di + 1] = Xor8(@, Shl8(row, 8 - x_offset))],
                               k + 1, cnt, x_byte, x_offset, row0, idx)
          ELSE DrawRows(d1, k + 1, cnt, x_byte, x_offset, row0, idx)

\* ------------------------------------------------------------ cycle

Snapshot ==
  [pc |-> pc, i |-> i, stack |-> stack, registers |-> registers,
   display |-> display, delay_timer |-> delay_timer, sound_timer |-> sound_timer,
   pending |-> pending, draws |-> draws.count]

\* the state a cycle leaves (memory and the timers are never written by cycle)
LeaveDrawn(npc, ni, nstack, nregs, ndisp, npanic, ndraws) ==
  /\ pc' = npc
  /\ i' = ni
  /\ stack' = nstack
  /\ registers' = nregs
  /\ display' = ndisp
  /\ panic' = npanic
  /\ entry' = << Snapshot >> \o (IF entry = << >> THEN << >> ELSE << entry[1] >>)
  /\ pending' = IF Len(nstack) > Len(stack)
                  THEN Append(pending, [at |-> pc, stack |-> stack])
                ELSE IF Len(nstack) < Len(stack)
                  THEN SubSeq(pending, 1, Len(pending) - 1)
                ELSE pending
  /\ draws' = ndraws
  /\ UNCHANGED << program, custom_font, built >>

\* the same for an instruction that does not invoke the draw callback
Leave(npc, ni, nstack, nregs, ndisp, npanic) ==
  LeaveDrawn(npc, ni, nstack, nregs, ndisp, npanic, draws)

Running == panic = ""
\* memory[self.pc] and memory[self.pc + 1] are in range
Fetched == Running /\ pc + 1 < MEMORY_SIZE

FetchPanics ==
  /\ Running
  /\ pc + 1 >= MEMORY_SIZE
  /\ Leave(pc, i, stack, registers, display, "memory index out of bounds")

\* 00E0 without the fill
MutOp00E0 ==
  /\ Fetched /\ Arm0 /\ n = 0
  /\ Leave(pc + 2, i, stack, registers, display, "")

Op00E0 ==
  /\ Fetched /\ Arm0 /\ n = 0
  /\ Leave(pc + 2, i, stack, registers, [d \in 0 .. DISPLAY_SIZE - 1 |-> 0], "")

Op00EE ==
  /\ Fetched /\ Arm0 /\ n = 14
  /\ stack # << >>
  /\ Leave(stack[Len(stack)], i, SubSeq(stack, 1, Len(stack) - 1),
           registers, display, "")

\* self.stack.pop() is None and unwrap() panics
Op00EEPanics ==
  /\ Fetched /\ Arm0 /\ n = 14
  /\ stack = << >>
  /\ Leave(pc + 2, i, stack, registers, display, "unwrap on None")

Todo00E ==
  /\ Fetched /\ Arm0 /\ n \notin {0, 14}
  /\ Leave(pc + 2, i, stack, registers, display, "not yet implemented")

Op1addr ==
  /\ Fetched /\ o = 1
  /\ Leave(Addr(x, y, n), i, stack, registers, display, "")

\* the call pushing the address of the call itself
MutOp2addr ==
  /\ Fetched /\ o = 2
  /\ Len(stack) < MaxStack
  /\ Leave(Addr(x, y, n), i, Append(stack, pc % 65536), registers, display, "")

Op2addr ==
  /\ Fetched /\ o = 2
  /\ Len(stack) < MaxStack
  /\ Leave(Addr(x, y, n), i, Append(stack, (pc + 2) % 65536), registers, display, "")

Op3xnn ==
  /\ Fetched /\ o = 3
  /\ Leave(IF registers[x] = Imm(y, n) THEN pc + 4 ELSE pc + 2,
           i, stack, registers, display, "")

Op4xnn ==
  /\ Fetched /\ o = 4
  /\ Leave(IF registers[x] # Imm(y, n) THEN pc + 4 ELSE pc + 2,
           i, stack, registers, display, "")

Op5xy0 ==
  /\ Fetched /\ Arm5
  /\ Leave(IF registers[x] = registers[y] THEN pc + 4 ELSE pc + 2,
           i, stack, registers, display, "")

Op6xnn ==
  /\ Fetched /\ o = 6
  /\ Leave(pc + 2, i, stack, [registers EXCEPT ![x] = Imm(y, n)], display, "")

\* 7xnn written like 8xy4, with the carry stored in VF
MutOp7xnn ==
  /\ Fetched /\ o = 7
  /\ Leave(pc + 2, i, stack,
           WriteResult(registers, x, AddCarry(registers[x], Imm(y, n))), display, "")

Op7xnn ==
  /\ Fetched /\ o = 7
  /\ Leave(pc + 2, i, stack,
           [registers EXCEPT ![x] = (@ + Imm(y, n)) % 256], display, "")

Op8xy0 ==
  /\ Fetched /\ o = 8 /\ n = 0
  /\ Leave(pc + 2, i, stack, [registers EXCEPT ![x] = registers[y]], display, "")

Op8xy1 ==
  /\ Fetched /\ o = 8 /\ n = 1
  /\ Leave(pc + 2, i, stack,
           [registers EXCEPT ![x] = Or8(@, registers[y])], display, "")

Op8xy2 ==
  /\ Fetched /\ o = 8 /\ n = 2
  /\ Leave(pc + 2, i, stack,
           [registers EXCEPT ![x] = And8(@, registers[y])], display, "")

Op8xy3 ==
  /\ Fetched /\ o = 8 /\ n = 3
  /\ Leave(pc + 2, i, stack,
           [registers EXCEPT ![x] = Xor8(@, registers[y])], display, "")

Op8xy4 ==
  /\ Fetched /\ o = 8 /\ n = 4
  /\ Leave(pc + 2, i, stack,
           WriteResult(registers, x, AddCarry(registers[x], registers[y])),
           display, "")

Op8xy5 ==
  /\ Fetched /\ o = 8 /\ n = 5
  /\ Leave(pc + 2, i, stack,
           WriteResult(registers, x, SubBorrow(registers[x], registers[y])),
           display, "")

Op8xy7 ==
  /\ Fetched /\ o = 8 /\ n = 7
  /\ Leave(pc + 2, i, stack,
           WriteResult(registers, x, SubBorrow(registers[y], registers[x])),
           display, "")

Todo8xy ==
  /\ Fetched /\ o = 8 /\ n \notin {0, 1, 2, 3, 4, 5, 7}
  /\ Leave(pc + 2, i, stack, registers, display, "not yet implemented")

Op9xy0 ==
  /\ Fetched /\ Arm9
  /\ Leave(IF registers[x] # registers[y] THEN pc + 4 ELSE pc + 2,
           i, stack, registers, display, "")

OpAaddr ==
  /\ Fetched /\ o = 10
  /\ Leave(pc + 2, Addr(x, y, n), stack, registers, display, "")

OpDxyn ==
  /\ Fetched /\ o = 13
  /\ LET col == And8(registers[x], DISPLAY_WIDTH - 1)
         row0 == And8(registers[y], DISPLAY_HEIGHT - 1)
         drawn == DrawRows(display, 0, n, col \div 8, col % 8, row0, i)
     IN  LeaveDrawn(pc + 2, i, stack, [registers EXCEPT ![15] = 0],
                    drawn.display, drawn.panic,
                    \* draw(self.display), reached only when the loop did not panic
                    IF drawn.panic = ""
                      THEN [count |-> draws.count + 1, last |-> drawn.display]
                      ELSE draws)

OpcodePanics ==
  /\ Fetched /\ ArmDefault
  /\ Leave(pc + 2, i, stack, registers, display, "opcode")

Cycle ==
  \/ FetchPanics
  \/ Op00E0 \/ Op00EE \/ Op00EEPanics \/ Todo00E
  \/ Op1addr \/ Op2addr
  \/ Op3xnn \/ Op4xnn \/ Op5xy0
  \/ Op6xnn \/ Op7xnn
  \/ Op8xy0 \/ Op8xy1 \/ Op8xy2 \/ Op8xy3
  \/ Op8xy4 \/ Op8xy5 \/ Op8xy7 \/ Todo8xy
  \/ Op9xy0 \/ OpAaddr \/ OpDxyn
  \/ OpcodePanics

\* ------------------------------------------------------------ programs

\* the two bytes of the instruction word with nibbles (op, hi, mid, lo)
Word(op, hi, mid, lo) == << op * 16 + hi, mid * 16 + lo >>
\* op x nn, and op addr
WordNN(op, rx, nn) == << op * 16 + rx, nn >>
WordAddr(op, addr) == << op * 16 + addr \div 256, addr % 256 >>

Vals == (0 .. MaxVal) \cup {127, 128} \cup (255 - MaxVal .. 255)
Regs == (0 .. MaxReg) \cup {15}
Nibs == Regs \cup {14}

\* set Vx and Vy, then one register-register instruction
AluPrograms ==
  { WordNN(6, rx, a) \o WordNN(6, ry, b) \o Word(8, rx, ry, op) :
      rx \in Regs, ry \in Regs, a \in Vals, b \in Vals, op \in {4, 5, 7} }

\* set VF and Vx, then add an immediate to Vx
AddImmPrograms ==
  { WordNN(6, 15, f) \o WordNN(6, rx, a) \o WordNN(7, rx, nn) :
      f \in {0, 2}, rx \in Regs, a \in Vals, nn \in Vals }

\* one instruction word, whatever it is
WordPrograms ==
  { Word(op, hi, mid, lo) : op \in 0 .. 15, hi \in Nibs, mid \in Nibs, lo \in 0 .. 15 }

\* sprite rows stored behind the code of a DrawProgram
SpriteData == << 255, 129, 60, 1, 165 >>
DataStart == PROGRAM_START + 16
ColVals == {0, 9, 124} \cup (DISPLAY_WIDTH - 1 - EdgeCols .. DISPLAY_WIDTH - 1)
RowVals == {0, 63} \cup (DISPLAY_HEIGHT - 1 - EdgeRows .. DISPLAY_HEIGHT - 1)

\* the register pairs (x, y) of the draws
DrawRegs == { << 0, 1 >>, << 15, 1 >>, << 0, 15 >> }

\* a background draw of nbg rows, then the same Dxyn twice, then a jump to itself
DrawPrograms ==
  { WordAddr(10, DataStart) \o WordNN(6, xy[1], vx) \o WordNN(6, xy[2], vy)
      \o Word(13, xy[1], xy[2], nbg)
      \o WordAddr(10, addr) \o Word(13, xy[1], xy[2], cnt) \o Word(13, xy[1], xy[2], cnt)
      \o WordAddr(1, PROGRAM_START + 14) \o SpriteData :
      xy \in DrawRegs, vx \in ColVals, vy \in RowVals, nbg \in {0, 2},
      addr \in {FONT_START, DataStart}, cnt \in 0 .. MaxN }

\* a sprite read that runs off the end of memory
MemEdgePrograms ==
  { WordAddr(10, MEMORY_SIZE - 1) \o Word(13, 0, 0, cnt) : cnt \in 0 .. MaxN }

\* three instructions, each a return, a call or a jump; the targets are the three
\* instructions themselves and the last byte of memory
Targets == {PROGRAM_START, PROGRAM_START + 2, PROGRAM_START + 4, MEMORY_SIZE - 1}
FlowWords ==
  {Word(0, 0, 14, 14)} \cup { WordAddr(op, t) : op \in {1, 2}, t \in Targets }
FlowPrograms == { a \o b \o c : a \in FlowWords, b \in FlowWords, c \in FlowWords }

Programs ==
  AluPrograms \cup AddImmPrograms \cup WordPrograms \cup DrawPrograms
    \cup MemEdgePrograms \cup FlowPrograms

\* ------------------------------------------------------------ specification

\* Chip8::new(program, None)
\* the machine new() returns for a program out of the given set
InitOf(progs) ==
  /\ program \in progs
  /\ custom_font = << >>
  /\ display = [d \in 0 .. DISPLAY_SIZE - 1 |-> 0]
  /\ pc = PROGRAM_START
  /\ i = 0
  /\ stack = << >>
  /\ delay_timer = 0
  /\ sound_timer = 0
  /\ registers = [r \in 0 .. 15 |-> 0]
  /\ panic = ""
  /\ entry = << >>
  /\ pending = << >>
  /\ last_cycle = 0
  /\ last_timer = 0
  /\ draws = [count |-> 0, last |-> << >>]
  /\ beeps = << >>
  /\ built = TRUE
  /\ since_call = 0
  /\ calls = << >>
  /\ run = [delay |-> 0, sound |-> 0, calls |-> 0]

Init == InitOf(Programs)

\* what a call of cycle, timers or update starts from
HostSnapshot ==
  [pc |-> pc, i |-> i, stack |-> stack, registers |-> registers,
   display |-> display, delay_timer |-> delay_timer, sound_timer |-> sound_timer,
   draws |-> draws.count, beeps |-> Len(beeps)]

\* the call history (the latest call, and what the one before it did) after a
\* call of the given kind that did (or did not) run a cycle and a timer tick
Called(kind, cycled, ticked) ==
  /\ calls' = << [kind |-> kind, gap |-> since_call, cycled |-> cycled,
                  ticked |-> ticked, before |-> HostSnapshot] >>
               \o (IF calls = << >> THEN << >>
                   ELSE << [kind |-> calls[1].kind, cycled |-> calls[1].cycled,
                            ticked |-> calls[1].ticked] >>)
  /\ since_call' = 0

\* a call of cycle by the host: nothing but cycle runs
CycleAlone ==
  /\ Called("cycle", TRUE, FALSE)
  /\ UNCHANGED << delay_timer, sound_timer, beeps, last_cycle, last_timer, run >>

Next ==
  \/ FetchPanics /\ CycleAlone
  \/ Op00E0 /\ CycleAlone
  \/ Op00EE /\ CycleAlone
  \/ Op00EEPanics /\ CycleAlone
  \/ Todo00E /\ CycleAlone
  \/ Op1addr /\ CycleAlone
  \/ Op2addr /\ CycleAlone
  \/ Op3xnn /\ CycleAlone
  \/ Op4xnn /\ CycleAlone
  \/ Op5xy0 /\ CycleAlone
  \/ Op6xnn /\ CycleAlone
  \/ Op7xnn /\ CycleAlone
  \/ Op8xy0 /\ CycleAlone
  \/ Op8xy1 /\ CycleAlone
  \/ Op8xy2 /\ CycleAlone
  \/ Op8xy3 /\ CycleAlone
  \/ Op8xy4 /\ CycleAlone
  \/ Op8xy5 /\ CycleAlone
  \/ Op8xy7 /\ CycleAlone
  \/ Todo8xy /\ CycleAlone
  \/ Op9xy0 /\ CycleAlone
  \/ OpAaddr /\ CycleAlone
  \/ OpDxyn /\ CycleAlone
  \/ OpcodePanics /\ CycleAlone

Spec == Init /\ [][Next]_vars

\* ------------------------------------------------------------ the latest cycle

\* a cycle has run; Pre is the state it started from
Ran == entry # << >>
Pre == entry[1]
\* the instruction word that cycle decoded (memory never changes)
PreFetched == Ran /\ Pre.pc + 1 < MEMORY_SIZE
PreO == memory(Pre.pc) \div 16
PreX == memory(Pre.pc) % 16
PreY == memory(Pre.pc + 1) \div 16
PreN == memory(Pre.pc + 1) % 16
\* the operands Vx and Vy it read
PreVx == Pre.registers[PreX]
PreVy == Pre.registers[PreY]

Did8xy4 == PreFetched /\ PreO = 8 /\ PreN = 4
Did8xy5 == PreFetched /\ PreO = 8 /\ PreN = 5
DidDxyn == PreFetched /\ PreO = 13
Did00EE == PreFetched /\ PreO = 0 /\ PreX = 0 /\ PreY = 14 /\ PreN = 14
Did2addr == PreFetched /\ PreO = 2

\* the start column, its byte and bit offset, and the start row of that Dxyn
PreCol == PreVx % DISPLAY_WIDTH
PreXByte == PreCol \div 8
PreXOffset == PreCol % 8
PreRow == PreVy % DISPLAY_HEIGHT
\* sprite row k of that Dxyn
PreSprite(k) == memory(Pre.i + k)

\* ------------------------------------------------------------ claims

\* C1 as stated: after 8xy4 with Vx = a and Vy = b, for every x and y,
\* Vx = (a + b) mod 256 and VF = 1 if a + b >= 256, else 0.
C1_AddAllRegisters ==
  Did8xy4 =>
    /\ registers[PreX] = (PreVx + PreVy) % 256
    /\ registers[15] = IF PreVx + PreVy >= 256 THEN 1 ELSE 0

\* C1 amended: after 8xy4 with Vx = a and Vy = b, VF = 1 if a + b >= 256, else 0,
\* for every x and y, and Vx = (a + b) mod 256 for every x other than 0xF.
C1_Add ==
  Did8xy4 =>
    /\ registers[15] = IF PreVx + PreVy >= 256 THEN 1 ELSE 0
    /\ PreX # 15 => registers[PreX] = (PreVx + PreVy) % 256

C1_Witness ==
  /\ Did8xy4 /\ PreX # 15 /\ PreY = 15
  /\ PreVx + PreVy > 256
  /\ registers[15] = 1
  /\ registers[PreX] = PreVx + PreVy - 256

\* C2 as stated: after 8xy5 with Vx = a and Vy = b, for every x and y, VF = 1 and
\* Vx = a - b when a > b, and VF = 0 and Vx = (256 - (b - a)) mod 256 when a <= b.
C2_SubAllRegisters ==
  Did8xy5 =>
    IF PreVx > PreVy
      THEN registers[15] = 1 /\ registers[PreX] = PreVx - PreVy
      ELSE registers[15] = 0 /\ registers[PreX] = (256 - (PreVy - PreVx)) % 256

\* C2 amended: after 8xy5 with Vx = a and Vy = b, VF = 1 when a > b and VF = 0
\* when a <= b, for every x and y, and for every x other than 0xF Vx = a - b when
\* a > b and Vx = (256 - (b - a)) mod 256 when a <= b.
C2_Sub ==
  Did8xy5 =>
    /\ registers[15] = IF PreVx > PreVy THEN 1 ELSE 0
    /\ PreX # 15 =>
         registers[PreX] = IF PreVx > PreVy
                             THEN PreVx - PreVy
                             ELSE (256 - (PreVy - PreVx)) % 256

C2_Witness ==
  /\ Did8xy5 /\ PreX # 15
  /\ PreVx < PreVy
  /\ registers[15] = 0
  /\ registers[PreX] = 256 - (PreVy - PreVx)

\* a pixel that was set before the latest cycle and is clear after it
Collision ==
  \E d \in 0 .. DISPLAY_SIZE - 1 : \E k \in 0 .. 7 :
    Bit(Pre.display[d], k) = 1 /\ Bit(display[d], k) = 0

\* C3: a Dxyn ends with VF = 1 when the sprite cleared a pixel that was set, and
\* with VF = 0 otherwise.
C3_CollisionFlag ==
  (DidDxyn /\ panic = "") => registers[15] = IF Collision THEN 1 ELSE 0

\* the latest two cycles were both Dxyn, with the same I, start column, start row
\* and height, and neither failed
TwoSameDraws ==
  /\ Len(entry) = 2
  /\ panic = ""
  /\ DidDxyn
  /\ memory(entry[2].pc) \div 16 = 13
  /\ memory(entry[2].pc + 1) % 16 = PreN
  /\ entry[2].i = Pre.i
  /\ entry[2].registers[memory(entry[2].pc) % 16] % DISPLAY_WIDTH = PreCol
  /\ entry[2].registers[memory(entry[2].pc + 1) \div 16] % DISPLAY_HEIGHT = PreRow

\* C4: two consecutive Dxyn with the same I, start column, start row and n, neither
\* failing, leave the display as it was before the first of them.
C4_DrawTwiceRestores == TwoSameDraws => display = entry[2].display

C4_Witness ==
  /\ TwoSameDraws
  /\ display = entry[2].display
  /\ Pre.display # display
  /\ \E d \in 0 .. DISPLAY_SIZE - 1 : display[d] # 0

\* C5: a Dxyn whose start column is greater than 56 clips the pixels at columns
\* >= 64: it changes no display byte other than the last byte of a display row.
C5_RightEdgeClipped ==
  (DidDxyn /\ PreCol > DISPLAY_WIDTH - 8) =>
    \A d \in 0 .. DISPLAY_SIZE - 1 :
      d % (DISPLAY_WIDTH \div 8) # PreXByte => display[d] = Pre.display[d]

\* C6: no Dxyn indexes the display outside 0 .. DISPLAY_SIZE - 1.
C6_DisplayIndexInBounds == panic # "display index out of bounds"

\* the display bytes sprite row k of the latest Dxyn indexes
PreRowBytes(k) ==
  LET di == (PreRow + k) * (DISPLAY_WIDTH \div 8) + PreXByte
  IN  IF PreXOffset # 0 THEN {di, di + 1} ELSE {di}

\* C7: after a Dxyn with start row r, the display rows above r are unchanged (no
\* sprite row wraps to the top), the sprite rows k with r + k >= 32 change no
\* display byte at all, and every sprite row k with r + k < 32 that memory holds
\* is XORed into its own bytes of display row r + k.
C7_VerticalClip ==
  DidDxyn =>
    /\ \A d \in 0 .. DISPLAY_SIZE - 1 :
         d \div (DISPLAY_WIDTH \div 8) < PreRow => display[d] = Pre.display[d]
    /\ \A d \in 0 .. DISPLAY_SIZE - 1 :
         display[d] # Pre.display[d] =>
           \E k \in 0 .. PreN - 1 :
             PreRow + k < DISPLAY_HEIGHT /\ d \in PreRowBytes(k)
    /\ \A k \in 0 .. PreN - 1 :
         (PreRow + k < DISPLAY_HEIGHT /\ Pre.i + k < MEMORY_SIZE) =>
           LET di == (PreRow + k) * (DISPLAY_WIDTH \div 8) + PreXByte
           IN  /\ display[di] = Xor8(Pre.display[di], PreSprite(k) \div 2 ^ PreXOffset)
               /\ (PreXByte < DISPLAY_WIDTH \div 8 - 1 /\ PreXOffset # 0) =>
                    display[di + 1] =
                      Xor8(Pre.display[di + 1],
                           (PreSprite(k) * 2 ^ (8 - PreXOffset)) % 256)

C7_Witness ==
  /\ DidDxyn /\ panic = ""
  /\ PreRow > 0
  /\ PreRow + PreN > DISPLAY_HEIGHT
  /\ PreXOffset # 0
  /\ \A k \in 0 .. PreN - 1 : PreSprite(k) # 0
  /\ \E d \in 0 .. DISPLAY_SIZE - 1 :
       d \div (DISPLAY_WIDTH \div 8) = DISPLAY_HEIGHT - 1 /\ display[d] # Pre.display[d]

\* C8: a cycle that fails leaves pc, the registers, I, the call stack, the display
\* and the timers as they were before it.
C8_FailureChangesNothing ==
  (Ran /\ panic # "") =>
    /\ pc = Pre.pc
    /\ registers = Pre.registers
    /\ i = Pre.i
    /\ stack = Pre.stack
    /\ display = Pre.display
    /\ delay_timer = Pre.delay_timer
    /\ sound_timer = Pre.sound_timer

\* the instruction words of the dispatch table
InTable(op, hi, mid, lo) ==
  \/ op = 0 /\ hi = 0 /\ mid = 14 /\ lo \in {0, 14}
  \/ op \in {1, 2, 3, 4, 6, 7, 10, 13}
  \/ op = 5 /\ lo = 0
  \/ op = 8 /\ lo \in {0, 1, 2, 3, 4, 5, 7}
  \/ op = 9 /\ lo = 0

\* C9: a cycle whose instruction word is not in the dispatch table panics.
C9_UnknownOpcodePanics ==
  (PreFetched /\ ~InTable(PreO, PreX, PreY, PreN)) => panic # ""

C9_Witness ==
  /\ PreFetched
  /\ PreO = 5 /\ PreN # 0
  /\ panic = "opcode"

\* C10: a 00EE with no call outstanding (an empty stack) fails; otherwise it sets
\* pc to the address after the latest call not yet returned from and restores the
\* stack that call found; a call directly followed by a return ends at the call's
\* address plus 2.
C10_CallReturnLifo ==
  /\ Did00EE =>
       /\ (Pre.stack = << >>) <=> (Pre.pending = << >>)
       /\ IF Pre.stack = << >>
            THEN panic # ""
            ELSE /\ panic = ""
                 /\ pc = Pre.pending[Len(Pre.pending)].at + 2
                 /\ stack = Pre.pending[Len(Pre.pending)].stack
  /\ (Did00EE /\ panic = "" /\ Len(entry) = 2 /\ memory(entry[2].pc) \div 16 = 2) =>
       /\ pc = entry[2].pc + 2
       /\ stack = entry[2].stack

C10_Witness ==
  /\ Did00EE /\ panic = ""
  /\ Len(Pre.pending) >= 2
  /\ Pre.pending[Len(Pre.pending)].at # Pre.pending[1].at
  /\ pc = Pre.pending[Len(Pre.pending)].at + 2
  /\ Len(stack) = Len(Pre.stack) - 1

\* C14: the draw callback is invoked exactly once by every cycle that executes
\* Dxyn, with the display as that cycle leaves it, and by no other cycle.
C14_DrawCallback ==
  PreFetched =>
    IF DidDxyn
      THEN draws.count = Pre.draws + 1 /\ draws.last = display
      ELSE draws.count = Pre.draws

Did8xy7 == PreFetched /\ PreO = 8 /\ PreN = 7

\* C15, the arithmetic instructions: VF is the flag computed from the operands as
\* they were read, for every x and y.
C15_ArithmeticFlags ==
  /\ Did8xy4 => registers[15] = IF PreVx + PreVy >= 256 THEN 1 ELSE 0
  /\ Did8xy5 => registers[15] = IF PreVx > PreVy THEN 1 ELSE 0
  /\ Did8xy7 => registers[15] = IF PreVy > PreVx THEN 1 ELSE 0

\* C15: every instruction that sets VF (8xy4, 8xy5, 8xy7, Dxyn) leaves VF in
\* {0, 1}, equal to its flag output (carry, no borrow, collision), for every x and
\* y, the operands being the values read before VF is written.
C15_FlagOutput ==
  /\ C15_ArithmeticFlags
  /\ (DidDxyn /\ panic = "") => registers[15] = IF Collision THEN 1 ELSE 0
  /\ (Did8xy4 \/ Did8xy5 \/ Did8xy7 \/ DidDxyn) => registers[15] \in {0, 1}

Did7xnn == PreFetched /\ PreO = 7
\* everything but pc and the registers is as the latest cycle found it
RestUnchanged ==
  /\ i = Pre.i
  /\ stack = Pre.stack
  /\ display = Pre.display
  /\ delay_timer = Pre.delay_timer
  /\ sound_timer = Pre.sound_timer
  /\ draws.count = Pre.draws

\* C16 as stated: 7xnn sets Vx to (Vx + nn) mod 256, advances pc by 2, changes
\* nothing else, and VF keeps its value for every x.
C16_AddImmKeepsFlag ==
  Did7xnn =>
    /\ registers[PreX] = (PreVx + Imm(PreY, PreN)) % 256
    /\ pc = Pre.pc + 2
    /\ \A r \in 0 .. 15 : r # PreX => registers[r] = Pre.registers[r]
    /\ RestUnchanged
    /\ registers[15] = Pre.registers[15]

\* C16 amended: 7xnn sets Vx to (Vx + nn) mod 256, advances pc by 2 and changes
\* nothing else; VF keeps its value for every x other than 0xF.
C16_AddImm ==
  Did7xnn =>
    /\ registers[PreX] = (PreVx + Imm(PreY, PreN)) % 256
    /\ pc = Pre.pc + 2
    /\ \A r \in 0 .. 15 : r # PreX => registers[r] = Pre.registers[r]
    /\ RestUnchanged
    /\ PreX # 15 => registers[15] = Pre.registers[15]

C16_Witness ==
  /\ Did7xnn /\ PreX # 15
  /\ PreVx + Imm(PreY, PreN) > 256
  /\ registers[PreX] = PreVx + Imm(PreY, PreN) - 256
  /\ Pre.registers[15] = 2
  /\ registers[15] = 2

\* C18: no cycle reads memory outside 0 .. 4095, neither when it fetches the
\* instruction at pc and pc + 1 nor when Dxyn reads sprite row I + i.
C18_MemoryReadsInBounds == panic # "memory index out of bounds"

\* ---------------------------------------------------------------------------
\* timers
\* ---------------------------------------------------------------------------
MaxTimer == 4
MaxTicks == 5
TimerVals == (0 .. MaxTimer) \cup {255}

Min(a, b) == IF a < b THEN a ELSE b
Max(a, b) == IF a > b THEN a ELSE b

\* timers with both decrements unguarded (wrapping below zero)
MutTimers(d, s, log) ==
  [delay |-> (d + 255) % 256,
   sound |-> (s + 255) % 256,
   beeps |-> IF s > 0 THEN Append(log, s) ELSE log]

\* the timers after one call; log holds the sound timer's value at each
\* invocation of beep
timers(d, s, log) ==
  [delay |-> IF d > 0 THEN d - 1 ELSE d,
   sound |-> IF s > 0 THEN s - 1 ELSE s,
   beeps |-> IF s > 0 THEN Append(log, s) ELSE log]

\* timers calling beep whatever the sound timer holds
MutTicked ==
  LET t == timers(delay_timer, sound_timer, beeps) IN
    /\ delay_timer' = t.delay
    /\ sound_timer' = t.sound
    /\ beeps' = Append(beeps, sound_timer)

Ticked ==
  LET t == timers(delay_timer, sound_timer, beeps) IN
    /\ delay_timer' = t.delay
    /\ sound_timer' = t.sound
    /\ beeps' = t.beeps

TimersDo ==
  /\ built /\ Running
  /\ Ticked
  /\ Called("timers", FALSE, TRUE)
  /\ UNCHANGED << program, display, pc, i, stack, registers, panic, entry, pending,
                  draws, built, last_cycle, last_timer, custom_font >>

TimersCall == TimersDo /\ UNCHANGED run

\* a run of consecutive calls of timers, counted
TimersRun ==
  /\ run.calls < MaxTicks
  /\ TimersDo
  /\ run' = [run EXCEPT !.calls = @ + 1]

\* the machine of the empty program with the timers at any values
InitTimers ==
  /\ program = << >>
  /\ custom_font = << >>
  /\ display = [d \in 0 .. DISPLAY_SIZE - 1 |-> 0]
  /\ pc = PROGRAM_START
  /\ i = 0
  /\ stack = << >>
  /\ delay_timer \in TimerVals
  /\ sound_timer \in TimerVals
  /\ registers = [r \in 0 .. 15 |-> 0]
  /\ panic = ""
  /\ entry = << >>
  /\ pending = << >>
  /\ last_cycle = 0
  /\ last_timer = 0
  /\ draws = [count |-> 0, last |-> << >>]
  /\ beeps = << >>
  /\ built = TRUE
  /\ since_call = 0
  /\ calls = << >>
  /\ run = [delay |-> delay_timer, sound |-> sound_timer, calls |-> 0]

NextTimers == TimersRun
SpecTimers == InitTimers /\ [][NextTimers]_vars

\* C13: after m consecutive calls of timers from sound timer k and delay timer d,
\* beep was invoked min(k, m) times, once in each call that found the sound
\* timer non-zero and before its decrement; the sound timer is max(k - m, 0) and
\* the delay timer max(d - m, 0); a call that finds both at zero changes nothing.
C13_TimersContract ==
  /\ Len(beeps) = Min(run.sound, run.calls)
  /\ \A j \in 1 .. Len(beeps) : beeps[j] = run.sound - (j - 1)
  /\ sound_timer = Max(run.sound - run.calls, 0)
  /\ delay_timer = Max(run.delay - run.calls, 0)
  /\ (calls # << >> /\ calls[1].kind = "timers") =>
       /\ Len(beeps) - calls[1].before.beeps
            = IF calls[1].before.sound_timer > 0 THEN 1 ELSE 0
       /\ (calls[1].before.delay_timer = 0 /\ calls[1].before.sound_timer = 0)
            => HostSnapshot = calls[1].before

C13_Witness ==
  /\ run.sound = 2 /\ run.delay = 1 /\ run.calls = 3
  /\ beeps = << 2, 1 >>
  /\ sound_timer = 0 /\ delay_timer = 0
  /\ calls[1].kind = "timers" /\ HostSnapshot = calls[1].before

\* ---------------------------------------------------------------------------
\* update
\* ---------------------------------------------------------------------------
\* time is counted in units of 1 / UnitsPerSecond seconds; last_cycle, last_timer
\* and since_call hold the time elapsed since the stamp (since the latest call)
UnitsPerSecond == 750
\* CLOCK_DUR = 1 / 700 and TIMER_DUR = 1 / 60 seconds
CLOCK_HZ == 700
TIMER_HZ == 60

\* self.last_cycle.elapsed().as_secs_f64() > CLOCK_DUR
CycleDue == last_cycle * CLOCK_HZ > UnitsPerSecond
\* self.last_timer.elapsed().as_secs_f64() > TIMER_DUR
TimerDue == last_timer * TIMER_HZ > UnitsPerSecond

\* elapsed times are kept up to the first value past the threshold
CycleCap == UnitsPerSecond \div CLOCK_HZ + 1
TimerCap == UnitsPerSecond \div TIMER_HZ + 1
\* the time since the latest call is kept up to the first value that is not less
\* than CLOCK_DUR
SinceCap == (UnitsPerSecond + CLOCK_HZ - 1) \div CLOCK_HZ

\* update without the assignment of Instant::now() to the stamp
MutStamped(t) == t

\* the time elapsed since a stamp just set to Instant::now()
Stamped(t) == 0

AdvanceTime ==
  /\ built /\ Running
  /\ last_cycle < CycleCap \/ last_timer < TimerCap \/ since_call < SinceCap
  /\ last_cycle' = Min(last_cycle + 1, CycleCap)
  /\ last_timer' = Min(last_timer + 1, TimerCap)
  /\ since_call' = Min(since_call + 1, SinceCap)
  /\ UNCHANGED << program, display, pc, i, stack, delay_timer, sound_timer, registers,
                  panic, entry, pending, draws, beeps, built, calls, run, custom_font >>

\* update: a cycle when its threshold has elapsed, then (unless the cycle
\* panicked) a timer tick when its threshold has elapsed
UpdateCall ==
  /\ built /\ Running
  /\ IF CycleDue
       THEN /\ Cycle
            /\ last_cycle' = IF panic' = "" THEN Stamped(last_cycle) ELSE last_cycle
       ELSE UNCHANGED << program, display, pc, i, stack, registers, panic, entry,
                         pending, draws, built, last_cycle, custom_font >>
  /\ IF panic' = "" /\ TimerDue
       THEN Ticked /\ last_timer' = Stamped(last_timer)
       ELSE UNCHANGED << delay_timer, sound_timer, beeps, last_timer >>
  /\ Called("update", CycleDue, panic' = "" /\ TimerDue)
  /\ UNCHANGED run

CycleCall == Cycle /\ CycleAlone

\* the programs run under a host: draw, clear, add, draw again and stay in a
\* jump to itself; a draw that runs off the display; a call and its return in a
\* loop; a jump to the last byte of memory
HostPrograms ==
  { WordAddr(10, PROGRAM_START + 14) \o WordNN(6, 0, 9) \o Word(13, 0, 1, 2)
      \o Word(0, 0, 14, 0) \o WordNN(7, 0, 250) \o Word(13, 0, 1, 2)
      \o WordAddr(1, PROGRAM_START + 12) \o << 255, 129 >>,
    WordAddr(10, PROGRAM_START + 8) \o WordNN(6, 0, 60) \o WordNN(6, 1, 31)
      \o Word(13, 0, 1, 1) \o << 255 >>,
    WordAddr(2, PROGRAM_START + 4) \o WordAddr(1, PROGRAM_START) \o Word(0, 0, 14, 14),
    WordAddr(10, PROGRAM_START) \o WordAddr(1, MEMORY_SIZE - 1) }

InitHost == InitOf(HostPrograms)

NextHost == CycleCall \/ TimersCall \/ UpdateCall \/ AdvanceTime
SpecHost == InitHost /\ [][NextHost]_vars

\* the two latest calls are calls of update, less than CLOCK_DUR apart
TwoUpdates ==
  /\ Len(calls) = 2
  /\ calls[1].kind = "update" /\ calls[2].kind = "update"
  /\ calls[1].gap * CLOCK_HZ < UnitsPerSecond

\* the latest call ran no cycle and no timer tick, invoked no callback and left
\* the machine as it found it
Idle ==
  /\ ~ calls[1].cycled /\ ~ calls[1].ticked
  /\ HostSnapshot = calls[1].before

\* C11 as stated: of two calls of update less than 1/700 second apart the second
\* does nothing, whatever the first call did.
C11_SecondUpdateIdle == TwoUpdates => Idle

\* C11 amended: of two calls of update less than 1/700 second apart, the second
\* runs no cycle when the first ran one and ticks no timer when the first ticked
\* them; a second call that does neither changes nothing.
C11_SecondUpdate ==
  TwoUpdates =>
    /\ calls[2].cycled => ~ calls[1].cycled
    /\ calls[2].ticked => ~ calls[1].ticked
    /\ (~ calls[1].cycled /\ ~ calls[1].ticked) => HostSnapshot = calls[1].before

C11_Witness ==
  /\ TwoUpdates
  /\ calls[2].cycled /\ calls[2].ticked
  /\ calls[1].gap > 0
  /\ Idle

Did00E0 == PreFetched /\ PreO = 0 /\ PreX = 0 /\ PreY = 14 /\ PreN = 0

\* the sprite rows of the latest Dxyn have a set bit that the code XORs into bit
\* b of display byte d
SpriteBit(d, b) ==
  \E k \in 0 .. PreN - 1 :
    /\ PreRow + k < DISPLAY_HEIGHT
    /\ Pre.i + k < MEMORY_SIZE
    /\ LET di == DisplayIndex(PreRow, k, PreXByte)
       IN  \/ d = di /\ Bit(Shr8(PreSprite(k), PreXOffset), b) = 1
           \/ d = di + 1 /\ PreXOffset # 0
                /\ Bit(Shl8(PreSprite(k), 8 - PreXOffset), b) = 1

\* C17: the display changes only through 00E0 and Dxyn: a call of timers, a call
\* of update that runs no cycle and a cycle of any other instruction leave it
\* unchanged; 00E0 leaves it all zero; Dxyn changes a bit only where a set sprite
\* bit is XORed into it.
C17_DisplayChanges ==
  calls # << >> =>
    /\ ~ calls[1].cycled => display = calls[1].before.display
    /\ calls[1].cycled =>
         /\ Pre.display = calls[1].before.display
         /\ ~ (Did00E0 \/ DidDxyn) => display = Pre.display
         /\ Did00E0 => \A d \in 0 .. DISPLAY_SIZE - 1 : display[d] = 0
         /\ DidDxyn =>
              \A d \in 0 .. DISPLAY_SIZE - 1 :
                display[d] # Pre.display[d] =>
                  \A b \in 0 .. 7 :
                    Bit(display[d], b) # Bit(Pre.display[d], b) => SpriteBit(d, b)

C17_Witness ==
  /\ Len(calls) = 2
  /\ calls[1].kind = "update" /\ calls[1].cycled /\ Did00E0
  /\ \E d \in 0 .. DISPLAY_SIZE - 1 : Pre.display[d] # 0
  /\ \A d \in 0 .. DISPLAY_SIZE - 1 : display[d] = 0

\* C19: the delay timer and the sound timer are 0 in every state, and beep is
\* never invoked.
C19_TimersStayZero ==
  /\ delay_timer = 0
  /\ sound_timer = 0
  /\ beeps = << >>

C19_Witness ==
  /\ Len(calls) = 2
  /\ calls[1].kind = "update" /\ calls[1].ticked /\ calls[1].cycled
  /\ calls[2].kind = "timers"
  /\ delay_timer = 0 /\ sound_timer = 0 /\ beeps = << >>

\* ---------------------------------------------------------------------------
\* new
\* ---------------------------------------------------------------------------
MaxLen == 3
EdgeLen == 3
Lens ==
  (0 .. MaxLen)
    \cup (MEMORY_SIZE - PROGRAM_START - EdgeLen .. MEMORY_SIZE - PROGRAM_START + EdgeLen)
Fill(len, seed) == [k \in 1 .. len |-> (k * seed + 7) % 256]
InputPrograms == { Fill(len, seed) : len \in Lens, seed \in {1, 37} } \cup HostPrograms
CustomFont == [k \in 1 .. Len(FONT_BYTES) |-> 255 - k]

\* the range check with the bound itself excluded
MutFits(len) == PROGRAM_START + len < MEMORY_SIZE

\* memory[0x200..0x200 + program.len()] is a range of memory
Fits(len) == PROGRAM_START + len <= MEMORY_SIZE

\* before the call of new: its arguments, and no machine yet
InitNew ==
  /\ program \in InputPrograms
  /\ custom_font \in {<< >>, CustomFont}
  /\ built = FALSE
  /\ panic = ""
  /\ display = << >>
  /\ pc = 0
  /\ i = 0
  /\ stack = << >>
  /\ delay_timer = 0
  /\ sound_timer = 0
  /\ registers = << >>
  /\ entry = << >>
  /\ pending = << >>
  /\ last_cycle = 0
  /\ last_timer = 0
  /\ draws = [count |-> 0, last |-> << >>]
  /\ beeps = << >>
  /\ since_call = 0
  /\ calls = << >>
  /\ run = [delay |-> 0, sound |-> 0, calls |-> 0]

\* Chip8::new: the slice of memory for the program is taken (a panic when it is
\* no range of memory), then the fields are set
New ==
  /\ ~ built /\ Running
  /\ IF Fits(Len(program))
       THEN /\ built' = TRUE
            /\ display' = [d \in 0 .. DISPLAY_SIZE - 1 |-> 0]
            /\ pc' = PROGRAM_START
            /\ registers' = [r \in 0 .. 15 |-> 0]
            /\ panic' = ""
       ELSE /\ panic' = "range end index out of range"
            /\ UNCHANGED << built, display, pc, registers >>
  /\ i' = 0
  /\ stack' = << >>
  /\ delay_timer' = 0
  /\ sound_timer' = 0
  /\ last_cycle' = 0
  /\ last_timer' = 0
  /\ UNCHANGED << program, custom_font, entry, pending, draws, beeps, since_call,
                  calls, run >>

CycleNew == built /\ CycleCall

NextNew == New \/ CycleNew
SpecNew == InitNew /\ [][NextNew]_vars

\* new has returned or panicked
Constructed == built \/ panic # ""

\* C12: new with a program of at most 3584 bytes returns a machine whose memory
\* holds the program at 0x200, the font at 0x050 .. 0x09F and zero elsewhere; with
\* a longer program it fails and returns no machine.
C12_Construction ==
  Constructed =>
    /\ Len(program) <= 3584 =>
         /\ built
         /\ \A a \in 0 .. MEMORY_SIZE - 1 :
              memory(a) =
                IF a >= 512 /\ a < 512 + Len(program) THEN program[a - 511]
                ELSE IF a >= 80 /\ a <= 159
                  THEN (IF custom_font = << >> THEN FONT_BYTES ELSE custom_font)[a - 79]
                ELSE 0
    /\ Len(program) >= 3585 => ~ built /\ panic = "range end index out of range"

C12_Witness ==
  /\ built /\ Len(program) = 3584 /\ custom_font # << >>
  /\ memory(4095) = program[3584] /\ memory(4095) # 0
  /\ memory(80) = custom_font[1] /\ memory(159) = custom_font[80]
  /\ memory(160) = 0 /\ memory(511) = 0

====
